---- MODULE Spec2Model ----
(***************************************************************************)
(* Model of src/joint/revolute_constraint.rs (nphysics): the revolute      *)
(* joint's velocity-constraint emission, impulse caching and position-     *)
(* constraint generation, for the dim2 and the dim3 build.                 *)
(*                                                                         *)
(* Several joints share one ConstraintSet (two row lists and two Jacobian  *)
(* cursors).  The operations of the joint are atomic actions; the solver   *)
(* (sweeps writing impulses, buffer reset) and the body set are the        *)
(* environment; the body set is an argument of each call, so the state of  *)
(* the two bodies is an input of the call.  SpecStep is the solver's step  *)
(* loop (emit all, sweep, cache all, reset); Spec adds the queries and a   *)
(* cache_impulses call made out of order.                                  *)
(***************************************************************************)
EXTENDS Integers, Sequences, FiniteSets, TLC

\* ------------------------------------------------------------------ bounds
NumJoints == 2     \* joints sharing the constraint set
MaxSteps == 2      \* simulation steps

Joints == 1..NumJoints
Bodies == 1..(NumJoints + 1)
BodyStates == {"static", "asleep", "awake"}

VARIABLES
    dim,                   \* build feature: 2 (dim2) or 3 (dim3)
    b1, b2,                \* per joint: body handles
    anchor1, anchor2,      \* per joint: local anchors
    axis1, axis2,          \* per joint: local axes (dim3 only)
    lin_impulses,          \* per joint: Vector<N>, indices 0..DIM-1
    ang_impulses,          \* per joint: AngularVector<N>, indices 0..ANG_DIM-1
    bilateral_ground_rng,  \* per joint: Range<usize> as <<start, end>>
    bilateral_rng,         \* per joint: Range<usize> as <<start, end>>
    bilateral_ground,      \* constraints.velocity.bilateral_ground
    bilateral,             \* constraints.velocity.bilateral
    ground_j_id, j_id,     \* the two Jacobian cursors
    step,                  \* number of the current step
    solved,                \* the solver swept the buffer since the last emission
    cached,                \* joints that cached in this step
    halted,                \* a panic unwound the program
    violated,              \* cache_impulses was called out of order
    last,                  \* the last operation: [op, j, arg, ret]
    prev_ground, prev_bilateral   \* the buffer of the previous step

joint_const == <<dim, b1, b2, anchor1, anchor2, axis1, axis2>>
accumulators == <<lin_impulses, ang_impulses>>
ranges == <<bilateral_ground_rng, bilateral_rng>>
buffer == <<bilateral_ground, bilateral>>
cursors == <<ground_j_id, j_id>>
driver == <<step, solved, cached, prev_ground, prev_bilateral>>
vars == <<joint_const, accumulators, ranges, buffer, cursors, driver, halted,
          violated, last>>

\* ------------------------------------------------------------- dimensions
DIM == dim
ANG_DIM == IF dim = 3 THEN 3 ELSE 1
SPATIAL_DIM == DIM + ANG_DIM

zeros(n) == [i \in 0..(n - 1) |-> 0]

Range(s) == {s[k] : k \in 1..Len(s)}

\* ------------------------------------------------------------ body access
\* s, s1, s2: the state of a body in the BodySet handed to the call
ndofs(s) == IF s = "static" THEN 0 ELSE SPATIAL_DIM

body_is_active(s) == s = "awake"

\* JointConstraint::is_active: some connected body is active.
is_active(s1, s2) == body_is_active(s1) \/ body_is_active(s2)

\* world-frame point/axis: the body's current transform applied to a local one
world(b, local) == <<"position", b, local>>

\* ---------------------------------------------------- constraint helpers
\* A bilateral row.  owner and kind are bookkeeping of the model.
Row(id, imp, j, kind) ==
    [impulse_id |-> id, impulse |-> imp, owner |-> j, kind |-> kind]

\* Rows of one helper call go to the ground list when a body has no dofs.
to_ground(s1, s2) == ndofs(s1) = 0 \/ ndofs(s2) = 0

\* per-row advance of the cursor the row is assembled under
jacobian_stride(s1, s2) == ndofs(s1) + ndofs(s2)

\* cs = [ground, bilateral, ground_j_id, j_id]: n rows appended to one list
push_rows(cs, j, s1, s2, n, impulses, impulse_id, kind) ==
    LET new == [k \in 1..n |->
                   Row(impulse_id + (k - 1), impulses[k - 1], j, kind)]
    IN  IF to_ground(s1, s2)
        THEN [cs EXCEPT !.ground = cs.ground \o new,
                        !.ground_j_id =
                            cs.ground_j_id + n * jacobian_stride(s1, s2)]
        ELSE [cs EXCEPT !.bilateral = cs.bilateral \o new,
                        !.j_id = cs.j_id + n * jacobian_stride(s1, s2)]

cancel_relative_linear_velocity(cs, j, s1, s2, impulses, impulse_id) ==
    push_rows(cs, j, s1, s2, DIM, impulses, impulse_id, "linear")

restrict_relative_angular_velocity_to_axis(cs, j, s1, s2, impulses, impulse_id) ==
    push_rows(cs, j, s1, s2, ANG_DIM - 1, impulses, impulse_id, "angular")

\* ------------------------------------------------------- RevoluteConstraint
\* mutant: the count of the body's dofs, not of the dofs the joint removes
num_velocity_constraints_all_dofs(j) == SPATIAL_DIM

num_velocity_constraints(j) == SPATIAL_DIM - 1

anchors(j) == <<b1[j], b2[j]>>

\* impulse-id offsets handed to the two helpers
linear_impulse_offset == 0

\* mutant: the angular rows share the id space of the linear rows
angular_impulse_offset_as_linear == linear_impulse_offset

angular_impulse_offset == DIM

\* mutant: the first index is read after the helpers have run
recorded_rng_after(first, len) == <<len, len>>

\* mutant: the range restarts at the head of the list
recorded_rng_from_head(first, len) == <<0, len>>

\* first..constraints.velocity.<list>.len()
recorded_rng(first, len) == <<first, len>>

velocity_constraints(j, s1, s2) ==
    LET first_bilateral_ground == Len(bilateral_ground)
        first_bilateral == Len(bilateral)
        cs0 == [ground |-> bilateral_ground, bilateral |-> bilateral,
                ground_j_id |-> ground_j_id, j_id |-> j_id]
        cs1 == cancel_relative_linear_velocity(
                   cs0, j, s1, s2, lin_impulses[j], linear_impulse_offset)
        cs2 == IF dim = 3
               THEN restrict_relative_angular_velocity_to_axis(
                        cs1, j, s1, s2, ang_impulses[j],
                        angular_impulse_offset)
               ELSE cs1
    IN  /\ bilateral_ground' = cs2.ground
        /\ bilateral' = cs2.bilateral
        /\ ground_j_id' = cs2.ground_j_id
        /\ j_id' = cs2.j_id
        /\ bilateral_ground_rng' =
               [bilateral_ground_rng EXCEPT
                   ![j] = recorded_rng(first_bilateral_ground, Len(cs2.ground))]
        /\ bilateral_rng' =
               [bilateral_rng EXCEPT
                   ![j] = recorded_rng(first_bilateral, Len(cs2.bilateral))]
        /\ UNCHANGED <<joint_const, accumulators>>

\* mutant: a range that ends at the end of the list is refused
slice_ok_exclusive(rng, len) == rng[1] <= rng[2] /\ rng[2] < len

\* Indexing a slice by a Range panics unless start <= end <= len.
slice_ok(rng, len) == rng[1] <= rng[2] /\ rng[2] <= len

\* mutant: the second branch writes the linear accumulator too
store_impulse_lin_only(acc, c) ==
    IF c.impulse_id < DIM
    THEN IF c.impulse_id \in DOMAIN acc.lin
         THEN [acc EXCEPT !.lin[c.impulse_id] = c.impulse]
         ELSE [acc EXCEPT !.ok = FALSE]
    ELSE IF c.impulse_id - DIM \in DOMAIN acc.lin
         THEN [acc EXCEPT !.lin[c.impulse_id - DIM] = c.impulse]
         ELSE [acc EXCEPT !.ok = FALSE]

\* One iteration of either loop.  acc = [lin, ang, ok, reads]; indexing a
\* vector out of bounds panics (ok becomes FALSE).
store_impulse(acc, c) ==
    IF c.impulse_id < DIM
    THEN IF c.impulse_id \in DOMAIN acc.lin
         THEN [acc EXCEPT !.lin[c.impulse_id] = c.impulse]
         ELSE [acc EXCEPT !.ok = FALSE]
    ELSE IF c.impulse_id - DIM \in DOMAIN acc.ang
         THEN [acc EXCEPT !.ang[c.impulse_id - DIM] = c.impulse]
         ELSE [acc EXCEPT !.ok = FALSE]

\* for c in &rows[k..to]; reads logs the rows visited, as <<list, index>>
RECURSIVE cache_rows(_, _, _, _, _)
cache_rows(rows, list, k, to, acc) ==
    IF k >= to \/ ~acc.ok
    THEN acc
    ELSE cache_rows(rows, list, k + 1, to,
             store_impulse([acc EXCEPT !.reads = Append(@, <<list, k>>)],
                           rows[k + 1]))

cache_slice(rows, list, rng, acc) ==
    IF ~acc.ok THEN acc
    ELSE IF ~slice_ok(rng, Len(rows)) THEN [acc EXCEPT !.ok = FALSE]
    ELSE cache_rows(rows, list, rng[1], rng[2], acc)

\* mutant: the loop over the paired list is missing
cache_result_ground_only(j) ==
    cache_slice(bilateral_ground, "ground", bilateral_ground_rng[j],
                [lin |-> lin_impulses[j], ang |-> ang_impulses[j],
                 ok |-> TRUE, reads |-> <<>>])

\* the outcome of cache_impulses: the accumulators, whether it completed,
\* and the rows it read
cache_result(j) ==
    LET a0 == [lin |-> lin_impulses[j], ang |-> ang_impulses[j],
               ok |-> TRUE, reads |-> <<>>]
        a1 == cache_slice(bilateral_ground, "ground",
                          bilateral_ground_rng[j], a0)
    IN  cache_slice(bilateral, "bilateral", bilateral_rng[j], a1)

\* mutant: the ranges are consumed by the call
cache_impulses_consuming(j) ==
    /\ lin_impulses' = [lin_impulses EXCEPT ![j] = cache_result(j).lin]
    /\ ang_impulses' = [ang_impulses EXCEPT ![j] = cache_result(j).ang]
    /\ halted' = ~cache_result(j).ok
    /\ bilateral_ground_rng' = [bilateral_ground_rng EXCEPT ![j] = <<0, 0>>]
    /\ bilateral_rng' = [bilateral_rng EXCEPT ![j] = <<0, 0>>]
    /\ UNCHANGED <<joint_const, buffer, cursors>>

cache_impulses(j) ==
    /\ lin_impulses' = [lin_impulses EXCEPT ![j] = cache_result(j).lin]
    /\ ang_impulses' = [ang_impulses EXCEPT ![j] = cache_result(j).ang]
    /\ halted' = ~cache_result(j).ok
    /\ UNCHANGED <<joint_const, ranges, buffer, cursors>>

\* mutant: the two counts are swapped
num_position_constraints_swapped(j, s1, s2) ==
    IF is_active(s1, s2)
    THEN IF DIM = 3 THEN 1 ELSE 2
    ELSE 0

num_position_constraints(j, s1, s2) ==
    IF is_active(s1, s2)
    THEN IF DIM = 3 THEN 2 ELSE 1
    ELSE 0

\* mutant: the axis branch is compiled in the dim2 build too
position_constraint_no_cfg(j, i, returned) ==
    IF i = 0
    THEN [helper |-> "cancel_relative_translation",
          args |-> <<world(b1[j], anchor1[j]), world(b2[j], anchor2[j])>>,
          value |-> returned]
    ELSE IF i = 1
    THEN [helper |-> "align_axis",
          args |-> <<world(b1[j], anchor1[j]), world(b2[j], anchor2[j]),
                     world(b1[j], axis1[j]), world(b2[j], axis2[j])>>,
          value |-> returned]
    ELSE [helper |-> "none", args |-> <<>>, value |-> "None"]

\* returned: what the helper that is called returns ("Some" or "None")
position_constraint(j, i, returned) ==
    LET w_anchor1 == world(b1[j], anchor1[j])
        w_anchor2 == world(b2[j], anchor2[j])
    IN  IF i = 0
        THEN [helper |-> "cancel_relative_translation",
              args |-> <<w_anchor1, w_anchor2>>, value |-> returned]
        ELSE IF dim = 3 /\ i = 1
        THEN [helper |-> "align_axis",
              args |-> <<w_anchor1, w_anchor2,
                         world(b1[j], axis1[j]), world(b2[j], axis2[j])>>,
              value |-> returned]
        ELSE [helper |-> "none", args |-> <<>>, value |-> "None"]

\* ------------------------------------------------------------ environment
\* the joints that have rows in the buffer
Emitters ==
    {bilateral_ground[k].owner : k \in 1..Len(bilateral_ground)}
        \cup {bilateral[k].owner : k \in 1..Len(bilateral)}

SweepStride == 2 * NumJoints * 5 + 3

\* The impulse a sweep leaves in a row: a value no other row and no other
\* step has, and never the initial zero.
SolvedImpulse(n, list, k) ==
    n * SweepStride + 2 * k + (IF list = "ground" THEN 1 ELSE 2)

sweep_list(rows, list) ==
    [k \in 1..Len(rows) |->
        [rows[k] EXCEPT !.impulse = SolvedImpulse(step, list, k - 1)]]

Indices == 0..DIM

Init ==
    /\ dim \in {2, 3}
    /\ b1 = [j \in Joints |-> j]
    /\ b2 = [j \in Joints |-> j + 1]
    /\ anchor1 = [j \in Joints |-> 10 * j + 1]
    /\ anchor2 = [j \in Joints |-> 10 * j + 2]
    /\ axis1 = [j \in Joints |-> IF dim = 3 THEN "x" ELSE "none"]
    /\ axis2 = [j \in Joints |-> IF dim = 3 THEN "y" ELSE "none"]
    /\ lin_impulses = [j \in Joints |-> zeros(DIM)]
    /\ ang_impulses = [j \in Joints |-> zeros(ANG_DIM)]
    /\ bilateral_ground_rng = [j \in Joints |-> <<0, 0>>]
    /\ bilateral_rng = [j \in Joints |-> <<0, 0>>]
    /\ bilateral_ground = <<>>
    /\ bilateral = <<>>
    /\ ground_j_id = 0
    /\ j_id = 0
    /\ step = 1
    /\ solved = FALSE
    /\ cached = {}
    /\ halted = FALSE
    /\ violated = FALSE
    /\ last = [op |-> "new", j |-> 0, arg |-> 0, ret |-> 0]
    /\ prev_ground = <<>>
    /\ prev_bilateral = <<>>


\* --------------------------------------------------------------- actions
Op(op, j, arg, ret) == [op |-> op, j |-> j, arg |-> arg, ret |-> ret]

running == ~halted /\ ~violated

\* cache_impulses is in order when the solver has swept the rows the joint
\* emitted in this step.
in_order(j) == solved /\ j \in Emitters

query_frame ==
    UNCHANGED <<joint_const, accumulators, ranges, buffer, cursors, driver,
                halted, violated>>

\* In each step every joint emits once, in any order.
VelocityConstraints(j) ==
    /\ running
    /\ ~solved
    /\ j \notin Emitters
    /\ \E s1, s2 \in BodyStates : velocity_constraints(j, s1, s2)
    /\ last' = Op("velocity_constraints", j, 0, 0)
    /\ UNCHANGED <<driver, halted, violated>>

\* The solver's sweeps leave an impulse in every row of the buffer.
Solve ==
    /\ running
    /\ ~solved
    /\ Emitters = Joints
    /\ bilateral_ground' = sweep_list(bilateral_ground, "ground")
    /\ bilateral' = sweep_list(bilateral, "bilateral")
    /\ solved' = TRUE
    /\ last' = Op("solve", 0, 0, 0)
    /\ UNCHANGED <<joint_const, accumulators, ranges, cursors, step, cached,
                   prev_ground, prev_bilateral, halted, violated>>

\* After the sweeps every joint caches once, in any order.
CacheImpulses(j) ==
    /\ running
    /\ in_order(j)
    /\ j \notin cached
    /\ cache_impulses(j)
    /\ cached' = cached \cup {j}
    /\ last' = Op("cache_impulses", j, 0,
                  [ok |-> cache_result(j).ok, reads |-> cache_result(j).reads])
    /\ UNCHANGED <<step, solved, prev_ground, prev_bilateral, violated>>

\* The solver resets the shared buffer and the cursors for the next step.
Clear ==
    /\ running
    /\ step < MaxSteps
    /\ solved
    /\ cached = Joints
    /\ bilateral_ground' = <<>>
    /\ bilateral' = <<>>
    /\ ground_j_id' = 0
    /\ j_id' = 0
    /\ step' = step + 1
    /\ solved' = FALSE
    /\ cached' = {}
    /\ prev_ground' = bilateral_ground
    /\ prev_bilateral' = bilateral
    /\ last' = Op("clear", 0, 0, 0)
    /\ UNCHANGED <<joint_const, accumulators, ranges, halted, violated>>

StepNext ==
    \/ \E j \in Joints : VelocityConstraints(j)
    \/ Solve
    \/ \E j \in Joints : CacheImpulses(j)
    \/ Clear

\* The solver's loop, used as the joint's contract asks.
SpecStep == Init /\ [][StepNext]_vars

\* A caller breaks the contract: cache_impulses before the joint emitted, or
\* before the sweeps of the step.  The run is followed up to the first such
\* call.
CacheImpulsesOutOfOrder(j) ==
    /\ running
    /\ ~in_order(j)
    /\ cache_impulses(j)
    /\ violated' = TRUE
    /\ last' = Op("cache_impulses", j, 0,
                  [ok |-> cache_result(j).ok, reads |-> cache_result(j).reads])
    /\ UNCHANGED driver

\* The queries are made between steps, on the reset buffer.
NumVelocityConstraints(j) ==
    /\ running
    /\ Emitters = {}
    /\ last' = Op("num_velocity_constraints", j, 0, num_velocity_constraints(j))
    /\ query_frame

Anchors(j) ==
    /\ running
    /\ Emitters = {}
    /\ last' = Op("anchors", j, 0, anchors(j))
    /\ query_frame

NumPositionConstraints(j) ==
    /\ running
    /\ Emitters = {}
    /\ \E s1, s2 \in BodyStates :
           last' = Op("num_position_constraints", j, <<s1, s2>>,
                      num_position_constraints(j, s1, s2))
    /\ query_frame

PositionConstraint(j) ==
    /\ running
    /\ Emitters = {}
    /\ \E i \in Indices, returned \in {"Some", "None"} :
           last' = Op("position_constraint", j, i,
                      position_constraint(j, i, returned))
    /\ query_frame

Next ==
    \/ \E j \in Joints : VelocityConstraints(j)
    \/ Solve
    \/ \E j \in Joints : CacheImpulses(j)
    \/ Clear
    \/ \E j \in Joints : CacheImpulsesOutOfOrder(j)
    \/ \E j \in Joints : NumVelocityConstraints(j)
    \/ \E j \in Joints : Anchors(j)
    \/ \E j \in Joints : NumPositionConstraints(j)
    \/ \E j \in Joints : PositionConstraint(j)

\* The solver's loop, the queries, and one call that breaks the contract.
Spec == Init /\ [][Next]_vars

\* ------------------------------------------------------------ properties
Emission == last'.op = "velocity_constraints"

Cached == last.op = "cache_impulses"

\* the rows of a list in a range <<start, end>>, as 0-based indices
Indices0(rng) == rng[1]..(rng[2] - 1)

IndexSeq(list, rng) == [n \in 1..(rng[2] - rng[1]) |-> <<list, rng[1] + n - 1>>]

\* the rows cache_impulses of joint j is to read, in order
ExpectedReads(j) ==
    IndexSeq("ground", bilateral_ground_rng[j])
        \o IndexSeq("bilateral", bilateral_rng[j])

RowAt(read) ==
    IF read[1] = "ground" THEN bilateral_ground[read[2] + 1]
    ELSE bilateral[read[2] + 1]

IsPrefix(s, t) == Len(s) <= Len(t) /\ s = SubSeq(t, 1, Len(s))

\* the rows in the ranges of joint j, ground rows first
OwnRows(j) ==
    SubSeq(bilateral_ground, bilateral_ground_rng[j][1] + 1,
           bilateral_ground_rng[j][2])
        \o SubSeq(bilateral, bilateral_rng[j][1] + 1, bilateral_rng[j][2])

\* C1: one call to velocity_constraints appends, over both lists, exactly
\* num_velocity_constraints() rows, and that count is SPATIAL_DIM - 1: 2 in
\* the dim2 build and 5 in the dim3 build.
C1_EmittedRowsMatchCount ==
    [][Emission =>
        LET appended == (Len(bilateral_ground') - Len(bilateral_ground))
                            + (Len(bilateral') - Len(bilateral))
            n == num_velocity_constraints(last'.j)
        IN  /\ appended = n
            /\ n = SPATIAL_DIM - 1
            /\ n = IF dim = 2 THEN 2 ELSE 5]_vars

\* an emission in the dim3 build into a buffer that holds rows in both lists
C1_Witness ==
    /\ last.op = "velocity_constraints"
    /\ dim = 3
    /\ Len(bilateral_ground) > 0
    /\ Len(bilateral) > 0

\* C2: after a call to velocity_constraints the two ranges of the joint are
\* [length before, length after) of the ground and of the paired list; the
\* rows below the ranges are the lists as they were, so the ranges cover the
\* rows of this call and no others, and they replace what an earlier step
\* recorded.
C2_RangesAreBeforeAfterLengths ==
    [][Emission =>
        LET j == last'.j
        IN  /\ bilateral_ground_rng'[j] =
                   <<Len(bilateral_ground), Len(bilateral_ground')>>
            /\ bilateral_rng'[j] = <<Len(bilateral), Len(bilateral')>>
            /\ SubSeq(bilateral_ground', 1, Len(bilateral_ground))
                   = bilateral_ground
            /\ SubSeq(bilateral', 1, Len(bilateral)) = bilateral]_vars

\* the second joint of the second step has emitted behind the rows of the first
C2_Witness ==
    /\ last.op = "velocity_constraints"
    /\ step = 2
    /\ \/ bilateral_rng[last.j][1] > 0
       \/ bilateral_ground_rng[last.j][1] > 0

\* C3: cache_impulses reads rows of its two ranges only, in order; a call that
\* completes has read each of them exactly once, and then the slot a row is
\* routed to (lin_impulses[id] for id < DIM, ang_impulses[id - DIM] otherwise)
\* holds the impulse of that row.
C3_CacheReadsRangesOnce ==
    Cached =>
        LET j == last.j
            reads == last.ret.reads
        IN  /\ IsPrefix(reads, ExpectedReads(j))
            /\ last.ret.ok =>
                   /\ reads = ExpectedReads(j)
                   /\ \A n \in 1..Len(reads) :
                          LET c == RowAt(reads[n])
                          IN  IF c.impulse_id < DIM
                              THEN lin_impulses[j][c.impulse_id] = c.impulse
                              ELSE ang_impulses[j][c.impulse_id - DIM]
                                       = c.impulse

\* a completed call in the dim3 build that read linear and angular rows
C3_Witness ==
    /\ Cached
    /\ last.ret.ok
    /\ dim = 3
    /\ Len(last.ret.reads) = 5
    /\ ang_impulses[last.j][1] > 0

\* C4: num_position_constraints is 0 when neither body of the call's body set
\* is active, and otherwise 2 in the dim3 and 1 in the dim2 build; it depends
\* on the body states of this call alone.
C4_NumPositionConstraints ==
    last.op = "num_position_constraints" =>
        last.ret = IF last.arg[1] # "awake" /\ last.arg[2] # "awake" THEN 0
                   ELSE IF dim = 3 THEN 2
                   ELSE 1

\* a call that finds both bodies inactive, in a later step
C4_Witness ==
    /\ last.op = "num_position_constraints"
    /\ last.ret = 0
    /\ step = 2

\* C5: index 0 is dispatched to the anchor-coincidence helper, index 1 to the
\* axis-alignment helper in the dim3 build only, every other index yields
\* None; so for an active joint the indices below num_position_constraints
\* are dispatched to a helper and the others yield None.
C5_PositionConstraintDispatch ==
    last.op = "position_constraint" =>
        LET j == last.j
            i == last.arg
            r == last.ret
        IN  /\ i = 0 =>
                   /\ r.helper = "cancel_relative_translation"
                   /\ r.args = <<world(b1[j], anchor1[j]),
                                 world(b2[j], anchor2[j])>>
            /\ (i = 1 /\ dim = 3) => r.helper = "align_axis"
            /\ (i >= 2 \/ (i >= 1 /\ dim = 2)) =>
                   r.helper = "none" /\ r.value = "None"
            /\ \A s1, s2 \in BodyStates :
                   is_active(s1, s2) =>
                       /\ i >= num_position_constraints(j, s1, s2) =>
                              r.helper = "none" /\ r.value = "None"
                       /\ i < num_position_constraints(j, s1, s2) =>
                              r.helper # "none"

\* index 1 in the dim2 build: the generator is exhausted
C5_Witness ==
    /\ last.op = "position_constraint"
    /\ last.arg = 1
    /\ dim = 2
    /\ last.ret.value = "None"

\* C6 as stated: a cache_impulses call made out of order aborts.
C6_OutOfOrderCacheAborts == violated => ~last.ret.ok

\* C6, amended: a cache_impulses call made out of order aborts exactly when
\* one of the recorded ranges ends beyond its list; before any emission
\* (ranges 0..0) and with stale ranges the refilled buffer covers it
\* completes.
C6_OutOfOrderCacheAbortsIffRangeOutside ==
    violated =>
        LET j == last.j
        IN  /\ last.ret.ok <=>
                   /\ bilateral_ground_rng[j][2] <= Len(bilateral_ground)
                   /\ bilateral_rng[j][2] <= Len(bilateral)
            /\ (bilateral_ground_rng[j] = <<0, 0>> /\ bilateral_rng[j] = <<0, 0>>)
                   => last.ret.ok /\ last.ret.reads = <<>>

\* a call with the ranges of the first step that completes in the second
\* step, on rows another joint emitted
C6_Witness ==
    /\ violated
    /\ last.ret.ok
    /\ step = 2
    /\ \E n \in 1..Len(last.ret.reads) :
           RowAt(last.ret.reads[n]).owner # last.j

\* C7: in the solver's loop the ranges of the joints that have emitted in the
\* step are pairwise disjoint in both lists, and cache_impulses of a joint
\* reads rows of that joint only, whatever the order of the calls.
C7_DisjointRangesOwnRows ==
    /\ \A j1, j2 \in Emitters :
           j1 # j2 =>
               /\ Indices0(bilateral_ground_rng[j1])
                      \cap Indices0(bilateral_ground_rng[j2]) = {}
               /\ Indices0(bilateral_rng[j1])
                      \cap Indices0(bilateral_rng[j2]) = {}
    /\ Cached =>
           \A n \in 1..Len(last.ret.reads) :
               RowAt(last.ret.reads[n]).owner = last.j

\* joint 1, which did not emit last, caches last; both lists hold rows
C7_Witness ==
    /\ Cached
    /\ cached = Joints
    /\ last.j = 1
    /\ bilateral_ground_rng[1][1] = 0
    /\ bilateral_rng[1][1] = 0
    /\ Len(bilateral_ground) > 0
    /\ Len(bilateral) > 0
    /\ Len(last.ret.reads) > 0

\* the impulse the sweeps of the previous step left in the row of joint j
\* with impulse id
PrevRows == prev_ground \o prev_bilateral

PrevImpulse(j, id) ==
    LET k == CHOOSE k \in 1..Len(PrevRows) :
                 PrevRows[k].owner = j /\ PrevRows[k].impulse_id = id
    IN  PrevRows[k].impulse

UnsolvedRows == IF solved THEN <<>> ELSE bilateral_ground \o bilateral

\* C8: the accumulators are zero until the first cache_impulses; the
\* warm-start impulse a row is emitted with is zero in the first step and
\* afterwards the impulse the sweeps of the previous step left in the row of
\* the same joint with the same impulse id; a slot no row is routed to keeps
\* its zero.
C8_WarmStartRoundTrip ==
    /\ \A j \in Joints :
           (step = 1 /\ j \notin cached) =>
               lin_impulses[j] = zeros(DIM) /\ ang_impulses[j] = zeros(ANG_DIM)
    /\ \A k \in 1..Len(UnsolvedRows) :
           LET r == UnsolvedRows[k]
           IN  r.impulse = IF step = 1 THEN 0
                           ELSE PrevImpulse(r.owner, r.impulse_id)
    /\ \A j \in Joints : ang_impulses[j][ANG_DIM - 1] = 0

\* rows emitted in the second step with the impulses of the first
C8_Witness ==
    /\ step = 2
    /\ dim = 3
    /\ Len(UnsolvedRows) = NumJoints * (SPATIAL_DIM - 1)
    /\ \A k \in 1..Len(UnsolvedRows) : UnsolvedRows[k].impulse > 0

\* C9: handles, anchors and axes never change; cache_impulses changes nothing
\* but the accumulators of its joint; velocity_constraints changes nothing
\* but the ranges of its joint, the buffer and the cursors, and no cursor
\* decreases; the four queries change nothing of the joints or the buffer.
C9_FrameConditions ==
    [][/\ joint_const' = joint_const
       /\ last'.op = "cache_impulses" =>
              /\ UNCHANGED <<ranges, buffer, cursors>>
              /\ \A k \in Joints \ {last'.j} :
                     /\ lin_impulses'[k] = lin_impulses[k]
                     /\ ang_impulses'[k] = ang_impulses[k]
       /\ Emission =>
              /\ UNCHANGED accumulators
              /\ ground_j_id' >= ground_j_id
              /\ j_id' >= j_id
              /\ \A k \in Joints \ {last'.j} :
                     /\ bilateral_ground_rng'[k] = bilateral_ground_rng[k]
                     /\ bilateral_rng'[k] = bilateral_rng[k]
       /\ last'.op \in {"num_velocity_constraints", "anchors",
                        "num_position_constraints", "position_constraint"} =>
              UNCHANGED <<accumulators, ranges, buffer, cursors>>]_vars

\* cache_impulses has changed the accumulators of its joint
C9_Witness ==
    /\ Cached
    /\ lin_impulses[last.j][0] > 0
    /\ ground_j_id > 0
    /\ j_id > 0

\* C10: the rows a joint emitted in the step are its linear rows, with the
\* ids 0..DIM-1, followed in the dim3 build by its angular rows, with the ids
\* DIM..SPATIAL_DIM-2; no two of them share an id; and cache_impulses made in
\* order never panics.
C10_ImpulseIdsPartition ==
    /\ \A j \in Emitters :
           LET rows == OwnRows(j)
           IN  \A m, n \in 1..Len(rows) :
                   /\ rows[m].kind = "linear" =>
                          rows[m].impulse_id \in 0..(DIM - 1)
                   /\ rows[m].kind = "angular" =>
                          rows[m].impulse_id \in DIM..(SPATIAL_DIM - 2)
                   /\ (rows[m].kind = "angular" /\ rows[n].kind = "linear")
                          => n < m
                   /\ m # n => rows[m].impulse_id # rows[n].impulse_id
    /\ Cached => last.ret.ok
    /\ ~halted

\* cache_impulses completed on the five rows of the dim3 build
C10_Witness ==
    /\ Cached
    /\ dim = 3
    /\ last.ret.ok
    /\ Len(OwnRows(last.j)) = 5
    /\ OwnRows(last.j)[5].kind = "angular"
====
